---- MODULE Spec2Model ----
(***************************************************************************)
(* Model of automation/api_complete_integration_nrlookup.py: the           *)
(* resource-to-service join (lookup builder, row extractors), the string   *)
(* utilities it uses, and the memoized New Relic account lookup.           *)
(*                                                                         *)
(* Python values are modelled as tagged records:                           *)
(*   None / JSON null     [t |-> "null"]                                   *)
(*   str                  [t |-> "str",  v |-> <<c1, c2, ...>>]            *)
(*   dict (ordered)       [t |-> "dict", items |-> << [k |-> key, v |-> value], ... >>] *)
(*   list                 [t |-> "list", items |-> << value, ... >>]       *)
(* A str is the sequence of its Unicode code points, so that lower(),      *)
(* upper(), strip(), find(), slicing and split() are computed character by *)
(* character, for every character.  The keys of the records that the code  *)
(* reads and writes by name are TLA+ strings.                              *)
(***************************************************************************)
EXTENDS Integers, Sequences, FiniteSets, TLC

VARIABLES
    pc,              \* position of the run
    apps_data,       \* main: apps_data (Apps API result)
    mappings_data,   \* main: mappings_data (Mappings API result)
    resource_lookup, \* main: resource_lookup, a dict value
    resources_data,  \* main: resources_data, sequence of row dicts
    services_data,   \* main: services_data, sequence of row dicts
    nr_api_key,      \* NewRelicLookup.nr_api_key
    account_cache,   \* NewRelicLookup.account_cache, a dict value
    idx,             \* enrich_resources_with_nr_account: rows processed so far
    http_posts,      \* the requests.post calls made so far: item name and response
    calls,           \* the get_item_details calls made so far: item name and return value
    csv_resources,   \* the rows written to app_resources_<ts>_final.csv
    resources_count, \* main: resources_count, what generate_csv returned
    arg,             \* argument of the pure function under check
    result           \* its return value

vars == <<pc, apps_data, mappings_data, resource_lookup, resources_data,
          services_data, nr_api_key, account_cache, idx, http_posts, calls,
          csv_resources, resources_count, arg, result>>

---------------------------------------------------------------------------
(* Python values *)

None == [t |-> "null"]
Str(s) == [t |-> "str", v |-> s]
Dict(items) == [t |-> "dict", items |-> items]
List(items) == [t |-> "list", items |-> items]
KV(key, value) == [k |-> key, v |-> value]
EmptyStr == Str(<<>>)

\* bool(x): None, '', {} and [] are false
Truthy(x) ==
    CASE x.t = "null" -> FALSE
      [] x.t = "str" -> x.v # <<>>
      [] OTHER -> x.items # <<>>

\* x or y
Or(x, y) == IF Truthy(x) THEN x ELSE y

\* position of key in an item sequence, 0 when absent
RECURSIVE KeyIndex(_, _, _)
KeyIndex(items, key, i) ==
    IF i > Len(items) THEN 0
    ELSE IF items[i].k = key THEN i
    ELSE KeyIndex(items, key, i + 1)

HasKey(d, key) == KeyIndex(d.items, key, 1) # 0

\* d.get(key, default)
GetDefault(d, key, default) ==
    LET i == KeyIndex(d.items, key, 1)
    IN  IF i = 0 THEN default ELSE d.items[i].v

\* d.get(key)
Get(d, key) == GetDefault(d, key, None)

\* d[key] = value: replaces in place when the key exists, else appends
SetItem(d, key, value) ==
    LET i == KeyIndex(d.items, key, 1)
    IN  IF i = 0 THEN Dict(Append(d.items, KV(key, value)))
        ELSE Dict([d.items EXCEPT ![i] = KV(key, value)])

\* list(d.values())
Values(d) == [i \in 1..Len(d.items) |-> d.items[i].v]

---------------------------------------------------------------------------
(* str methods.  A str is the sequence of its Unicode code points. *)

\* the printable ASCII characters, code points 32 to 126 ("" stands in
\* the place of the grave accent, 96)
Ascii == <<
    " ", "!", "\"", "#", "$", "%", "&", "'", "(", ")", "*", "+", ",", "-", ".", "/",
    "0", "1", "2", "3", "4", "5", "6", "7", "8", "9", ":", ";", "<", "=", ">", "?",
    "@", "A", "B", "C", "D", "E", "F", "G", "H", "I", "J", "K", "L", "M", "N", "O",
    "P", "Q", "R", "S", "T", "U", "V", "W", "X", "Y", "Z", "[", "\\", "]", "^", "_",
    "", "a", "b", "c", "d", "e", "f", "g", "h", "i", "j", "k", "l", "m", "n", "o",
    "p", "q", "r", "s", "t", "u", "v", "w", "x", "y", "z", "{", "|", "}", "~" >>

\* ord(c) of a printable ASCII character
Ord(c) == 31 + (CHOOSE i \in 1..Len(Ascii) : Ascii[i] = c)

\* the str written with these printable ASCII characters
Text(chars) == [i \in 1..Len(chars) |-> Ord(chars[i])]

\* the characters c with c.isspace(): the ones strip() removes
Whitespace ==
    (9..13) \cup (28..32) \cup {133, 160, 5760} \cup (8192..8202)
        \cup {8232, 8233, 8239, 8287, 12288}

\* str.lower() of one character, where it is one other character: the
\* characters lo, lo + step, ... up to hi map to themselves plus delta,
\* as <<lo, hi, step, delta>> (characters from 128 on)
LowerRanges == <<
    <<192,214,1,32>>, <<216,222,1,32>>, <<256,302,2,1>>, <<306,310,2,1>>,
    <<313,327,2,1>>, <<330,374,2,1>>, <<376,376,1,-121>>, <<377,381,2,1>>,
    <<385,385,1,210>>, <<386,388,2,1>>, <<390,390,1,206>>, <<391,391,1,1>>,
    <<393,394,1,205>>, <<395,395,1,1>>, <<398,398,1,79>>, <<399,399,1,202>>,
    <<400,400,1,203>>, <<401,401,1,1>>, <<403,403,1,205>>, <<404,404,1,207>>,
    <<406,406,1,211>>, <<407,407,1,209>>, <<408,408,1,1>>, <<412,412,1,211>>,
    <<413,413,1,213>>, <<415,415,1,214>>, <<416,420,2,1>>, <<422,422,1,218>>,
    <<423,423,1,1>>, <<425,425,1,218>>, <<428,428,1,1>>, <<430,430,1,218>>,
    <<431,431,1,1>>, <<433,434,1,217>>, <<435,437,2,1>>, <<439,439,1,219>>,
    <<440,440,1,1>>, <<444,444,1,1>>, <<452,452,1,2>>, <<453,453,1,1>>,
    <<455,455,1,2>>, <<456,456,1,1>>, <<458,458,1,2>>, <<459,475,2,1>>,
    <<478,494,2,1>>, <<497,497,1,2>>, <<498,500,2,1>>, <<502,502,1,-97>>,
    <<503,503,1,-56>>, <<504,542,2,1>>, <<544,544,1,-130>>, <<546,562,2,1>>,
    <<570,570,1,10795>>, <<571,571,1,1>>, <<573,573,1,-163>>,
    <<574,574,1,10792>>, <<577,577,1,1>>, <<579,579,1,-195>>,
    <<580,580,1,69>>, <<581,581,1,71>>, <<582,590,2,1>>, <<880,882,2,1>>,
    <<886,886,1,1>>, <<895,895,1,116>>, <<902,902,1,38>>, <<904,906,1,37>>,
    <<908,908,1,64>>, <<910,911,1,63>>, <<913,929,1,32>>, <<931,939,1,32>>,
    <<975,975,1,8>>, <<984,1006,2,1>>, <<1012,1012,1,-60>>, <<1015,1015,1,1>>,
    <<1017,1017,1,-7>>, <<1018,1018,1,1>>, <<1021,1023,1,-130>>,
    <<1024,1039,1,80>>, <<1040,1071,1,32>>, <<1120,1152,2,1>>,
    <<1162,1214,2,1>>, <<1216,1216,1,15>>, <<1217,1229,2,1>>,
    <<1232,1326,2,1>>, <<1329,1366,1,48>>, <<4256,4293,1,7264>>,
    <<4295,4295,1,7264>>, <<4301,4301,1,7264>>, <<5024,5103,1,38864>>,
    <<5104,5109,1,8>>, <<7312,7354,1,-3008>>, <<7357,7359,1,-3008>>,
    <<7680,7828,2,1>>, <<7838,7838,1,-7615>>, <<7840,7934,2,1>>,
    <<7944,7951,1,-8>>, <<7960,7965,1,-8>>, <<7976,7983,1,-8>>,
    <<7992,7999,1,-8>>, <<8008,8013,1,-8>>, <<8025,8031,2,-8>>,
    <<8040,8047,1,-8>>, <<8072,8079,1,-8>>, <<8088,8095,1,-8>>,
    <<8104,8111,1,-8>>, <<8120,8121,1,-8>>, <<8122,8123,1,-74>>,
    <<8124,8124,1,-9>>, <<8136,8139,1,-86>>, <<8140,8140,1,-9>>,
    <<8152,8153,1,-8>>, <<8154,8155,1,-100>>, <<8168,8169,1,-8>>,
    <<8170,8171,1,-112>>, <<8172,8172,1,-7>>, <<8184,8185,1,-128>>,
    <<8186,8187,1,-126>>, <<8188,8188,1,-9>>, <<8486,8486,1,-7517>>,
    <<8490,8490,1,-8383>>, <<8491,8491,1,-8262>>, <<8498,8498,1,28>>,
    <<8544,8559,1,16>>, <<8579,8579,1,1>>, <<9398,9423,1,26>>,
    <<11264,11311,1,48>>, <<11360,11360,1,1>>, <<11362,11362,1,-10743>>,
    <<11363,11363,1,-3814>>, <<11364,11364,1,-10727>>, <<11367,11371,2,1>>,
    <<11373,11373,1,-10780>>, <<11374,11374,1,-10749>>,
    <<11375,11375,1,-10783>>, <<11376,11376,1,-10782>>, <<11378,11378,1,1>>,
    <<11381,11381,1,1>>, <<11390,11391,1,-10815>>, <<11392,11490,2,1>>,
    <<11499,11501,2,1>>, <<11506,11506,1,1>>, <<42560,42604,2,1>>,
    <<42624,42650,2,1>>, <<42786,42798,2,1>>, <<42802,42862,2,1>>,
    <<42873,42875,2,1>>, <<42877,42877,1,-35332>>, <<42878,42886,2,1>>,
    <<42891,42891,1,1>>, <<42893,42893,1,-42280>>, <<42896,42898,2,1>>,
    <<42902,42920,2,1>>, <<42922,42922,1,-42308>>, <<42923,42923,1,-42319>>,
    <<42924,42924,1,-42315>>, <<42925,42925,1,-42305>>,
    <<42926,42926,1,-42308>>, <<42928,42928,1,-42258>>,
    <<42929,42929,1,-42282>>, <<42930,42930,1,-42261>>, <<42931,42931,1,928>>,
    <<42932,42946,2,1>>, <<42948,42948,1,-48>>, <<42949,42949,1,-42307>>,
    <<42950,42950,1,-35384>>, <<42951,42953,2,1>>, <<42960,42960,1,1>>,
    <<42966,42968,2,1>>, <<42997,42997,1,1>>, <<65313,65338,1,32>>,
    <<66560,66599,1,40>>, <<66736,66771,1,40>>, <<66928,66964,2,39>>,
    <<66929,66937,2,39>>, <<66941,66953,2,39>>, <<66957,66961,2,39>>,
    <<66965,66965,1,39>>, <<68736,68786,1,64>>, <<71840,71871,1,32>>,
    <<93760,93791,1,32>>, <<125184,125217,1,34>> >>

\* str.lower() of one character, where it is several characters
LowerSpecial == <<
    <<304, <<105,775>> >> >>

\* str.upper() of one character, where it is one other character
UpperRanges == <<
    <<181,181,1,743>>, <<224,246,1,-32>>, <<248,254,1,-32>>,
    <<255,255,1,121>>, <<257,303,2,-1>>, <<305,305,1,-232>>, <<307,311,2,-1>>,
    <<314,328,2,-1>>, <<331,375,2,-1>>, <<378,382,2,-1>>, <<383,383,1,-300>>,
    <<384,384,1,195>>, <<387,389,2,-1>>, <<392,392,1,-1>>, <<396,396,1,-1>>,
    <<402,402,1,-1>>, <<405,405,1,97>>, <<409,409,1,-1>>, <<410,410,1,163>>,
    <<414,414,1,130>>, <<417,421,2,-1>>, <<424,424,1,-1>>, <<429,429,1,-1>>,
    <<432,432,1,-1>>, <<436,438,2,-1>>, <<441,441,1,-1>>, <<445,445,1,-1>>,
    <<447,447,1,56>>, <<453,453,1,-1>>, <<454,454,1,-2>>, <<456,456,1,-1>>,
    <<457,457,1,-2>>, <<459,459,1,-1>>, <<460,460,1,-2>>, <<462,476,2,-1>>,
    <<477,477,1,-79>>, <<479,495,2,-1>>, <<498,498,1,-1>>, <<499,499,1,-2>>,
    <<501,501,1,-1>>, <<505,543,2,-1>>, <<547,563,2,-1>>, <<572,572,1,-1>>,
    <<575,576,1,10815>>, <<578,578,1,-1>>, <<583,591,2,-1>>,
    <<592,592,1,10783>>, <<593,593,1,10780>>, <<594,594,1,10782>>,
    <<595,595,1,-210>>, <<596,596,1,-206>>, <<598,599,1,-205>>,
    <<601,601,1,-202>>, <<603,603,1,-203>>, <<604,604,1,42319>>,
    <<608,608,1,-205>>, <<609,609,1,42315>>, <<611,611,1,-207>>,
    <<613,613,1,42280>>, <<614,614,1,42308>>, <<616,616,1,-209>>,
    <<617,617,1,-211>>, <<618,618,1,42308>>, <<619,619,1,10743>>,
    <<620,620,1,42305>>, <<623,623,1,-211>>, <<625,625,1,10749>>,
    <<626,626,1,-213>>, <<629,629,1,-214>>, <<637,637,1,10727>>,
    <<640,640,1,-218>>, <<642,642,1,42307>>, <<643,643,1,-218>>,
    <<647,647,1,42282>>, <<648,648,1,-218>>, <<649,649,1,-69>>,
    <<650,651,1,-217>>, <<652,652,1,-71>>, <<658,658,1,-219>>,
    <<669,669,1,42261>>, <<670,670,1,42258>>, <<837,837,1,84>>,
    <<881,883,2,-1>>, <<887,887,1,-1>>, <<891,893,1,130>>, <<940,940,1,-38>>,
    <<941,943,1,-37>>, <<945,961,1,-32>>, <<962,962,1,-31>>,
    <<963,971,1,-32>>, <<972,972,1,-64>>, <<973,974,1,-63>>,
    <<976,976,1,-62>>, <<977,977,1,-57>>, <<981,981,1,-47>>,
    <<982,982,1,-54>>, <<983,983,1,-8>>, <<985,1007,2,-1>>,
    <<1008,1008,1,-86>>, <<1009,1009,1,-80>>, <<1010,1010,1,7>>,
    <<1011,1011,1,-116>>, <<1013,1013,1,-96>>, <<1016,1016,1,-1>>,
    <<1019,1019,1,-1>>, <<1072,1103,1,-32>>, <<1104,1119,1,-80>>,
    <<1121,1153,2,-1>>, <<1163,1215,2,-1>>, <<1218,1230,2,-1>>,
    <<1231,1231,1,-15>>, <<1233,1327,2,-1>>, <<1377,1414,1,-48>>,
    <<4304,4346,1,3008>>, <<4349,4351,1,3008>>, <<5112,5117,1,-8>>,
    <<7296,7296,1,-6254>>, <<7297,7297,1,-6253>>, <<7298,7298,1,-6244>>,
    <<7299,7300,1,-6242>>, <<7301,7301,1,-6243>>, <<7302,7302,1,-6236>>,
    <<7303,7303,1,-6181>>, <<7304,7304,1,35266>>, <<7545,7545,1,35332>>,
    <<7549,7549,1,3814>>, <<7566,7566,1,35384>>, <<7681,7829,2,-1>>,
    <<7835,7835,1,-59>>, <<7841,7935,2,-1>>, <<7936,7943,1,8>>,
    <<7952,7957,1,8>>, <<7968,7975,1,8>>, <<7984,7991,1,8>>,
    <<8000,8005,1,8>>, <<8017,8023,2,8>>, <<8032,8039,1,8>>,
    <<8048,8049,1,74>>, <<8050,8053,1,86>>, <<8054,8055,1,100>>,
    <<8056,8057,1,128>>, <<8058,8059,1,112>>, <<8060,8061,1,126>>,
    <<8112,8113,1,8>>, <<8126,8126,1,-7205>>, <<8144,8145,1,8>>,
    <<8160,8161,1,8>>, <<8165,8165,1,7>>, <<8526,8526,1,-28>>,
    <<8560,8575,1,-16>>, <<8580,8580,1,-1>>, <<9424,9449,1,-26>>,
    <<11312,11359,1,-48>>, <<11361,11361,1,-1>>, <<11365,11365,1,-10795>>,
    <<11366,11366,1,-10792>>, <<11368,11372,2,-1>>, <<11379,11379,1,-1>>,
    <<11382,11382,1,-1>>, <<11393,11491,2,-1>>, <<11500,11502,2,-1>>,
    <<11507,11507,1,-1>>, <<11520,11557,1,-7264>>, <<11559,11559,1,-7264>>,
    <<11565,11565,1,-7264>>, <<42561,42605,2,-1>>, <<42625,42651,2,-1>>,
    <<42787,42799,2,-1>>, <<42803,42863,2,-1>>, <<42874,42876,2,-1>>,
    <<42879,42887,2,-1>>, <<42892,42892,1,-1>>, <<42897,42899,2,-1>>,
    <<42900,42900,1,48>>, <<42903,42921,2,-1>>, <<42933,42947,2,-1>>,
    <<42952,42954,2,-1>>, <<42961,42961,1,-1>>, <<42967,42969,2,-1>>,
    <<42998,42998,1,-1>>, <<43859,43859,1,-928>>, <<43888,43967,1,-38864>>,
    <<65345,65370,1,-32>>, <<66600,66639,1,-40>>, <<66776,66811,1,-40>>,
    <<66967,67003,2,-39>>, <<66968,66976,2,-39>>, <<66980,66992,2,-39>>,
    <<66996,67000,2,-39>>, <<67004,67004,1,-39>>, <<68800,68850,1,-64>>,
    <<71872,71903,1,-32>>, <<93792,93823,1,-32>>, <<125218,125251,1,-34>> >>

\* str.upper() of one character, where it is several characters
UpperSpecial == <<
    <<223, <<83,83>> >>, <<329, <<700,78>> >>, <<496, <<74,780>> >>, <<912,
    <<921,776,769>> >>, <<944, <<933,776,769>> >>, <<1415, <<1333,1362>> >>,
    <<7830, <<72,817>> >>, <<7831, <<84,776>> >>, <<7832, <<87,778>> >>,
    <<7833, <<89,778>> >>, <<7834, <<65,702>> >>, <<8016, <<933,787>> >>,
    <<8018, <<933,787,768>> >>, <<8020, <<933,787,769>> >>, <<8022,
    <<933,787,834>> >>, <<8064, <<7944,921>> >>, <<8065, <<7945,921>> >>,
    <<8066, <<7946,921>> >>, <<8067, <<7947,921>> >>, <<8068, <<7948,921>> >>,
    <<8069, <<7949,921>> >>, <<8070, <<7950,921>> >>, <<8071, <<7951,921>> >>,
    <<8072, <<7944,921>> >>, <<8073, <<7945,921>> >>, <<8074, <<7946,921>> >>,
    <<8075, <<7947,921>> >>, <<8076, <<7948,921>> >>, <<8077, <<7949,921>> >>,
    <<8078, <<7950,921>> >>, <<8079, <<7951,921>> >>, <<8080, <<7976,921>> >>,
    <<8081, <<7977,921>> >>, <<8082, <<7978,921>> >>, <<8083, <<7979,921>> >>,
    <<8084, <<7980,921>> >>, <<8085, <<7981,921>> >>, <<8086, <<7982,921>> >>,
    <<8087, <<7983,921>> >>, <<8088, <<7976,921>> >>, <<8089, <<7977,921>> >>,
    <<8090, <<7978,921>> >>, <<8091, <<7979,921>> >>, <<8092, <<7980,921>> >>,
    <<8093, <<7981,921>> >>, <<8094, <<7982,921>> >>, <<8095, <<7983,921>> >>,
    <<8096, <<8040,921>> >>, <<8097, <<8041,921>> >>, <<8098, <<8042,921>> >>,
    <<8099, <<8043,921>> >>, <<8100, <<8044,921>> >>, <<8101, <<8045,921>> >>,
    <<8102, <<8046,921>> >>, <<8103, <<8047,921>> >>, <<8104, <<8040,921>> >>,
    <<8105, <<8041,921>> >>, <<8106, <<8042,921>> >>, <<8107, <<8043,921>> >>,
    <<8108, <<8044,921>> >>, <<8109, <<8045,921>> >>, <<8110, <<8046,921>> >>,
    <<8111, <<8047,921>> >>, <<8114, <<8122,921>> >>, <<8115, <<913,921>> >>,
    <<8116, <<902,921>> >>, <<8118, <<913,834>> >>, <<8119, <<913,834,921>>
    >>, <<8124, <<913,921>> >>, <<8130, <<8138,921>> >>, <<8131, <<919,921>>
    >>, <<8132, <<905,921>> >>, <<8134, <<919,834>> >>, <<8135,
    <<919,834,921>> >>, <<8140, <<919,921>> >>, <<8146, <<921,776,768>> >>,
    <<8147, <<921,776,769>> >>, <<8150, <<921,834>> >>, <<8151,
    <<921,776,834>> >>, <<8162, <<933,776,768>> >>, <<8163, <<933,776,769>>
    >>, <<8164, <<929,787>> >>, <<8166, <<933,834>> >>, <<8167,
    <<933,776,834>> >>, <<8178, <<8186,921>> >>, <<8179, <<937,921>> >>,
    <<8180, <<911,921>> >>, <<8182, <<937,834>> >>, <<8183, <<937,834,921>>
    >>, <<8188, <<937,921>> >>, <<64256, <<70,70>> >>, <<64257, <<70,73>> >>,
    <<64258, <<70,76>> >>, <<64259, <<70,70,73>> >>, <<64260, <<70,70,76>> >>,
    <<64261, <<83,84>> >>, <<64262, <<83,84>> >>, <<64275, <<1348,1350>> >>,
    <<64276, <<1348,1333>> >>, <<64277, <<1348,1339>> >>, <<64278,
    <<1358,1350>> >>, <<64279, <<1348,1341>> >> >>

\* the case-ignorable characters, as <<lo, hi>>
CaseIgnorableRanges == <<
    <<39,39>>, <<46,46>>, <<58,58>>, <<94,94>>, <<96,96>>, <<168,168>>,
    <<173,173>>, <<175,175>>, <<180,180>>, <<183,184>>, <<688,879>>,
    <<884,885>>, <<890,890>>, <<900,901>>, <<903,903>>, <<1155,1161>>,
    <<1369,1369>>, <<1375,1375>>, <<1425,1469>>, <<1471,1471>>, <<1473,1474>>,
    <<1476,1477>>, <<1479,1479>>, <<1524,1524>>, <<1536,1541>>, <<1552,1562>>,
    <<1564,1564>>, <<1600,1600>>, <<1611,1631>>, <<1648,1648>>, <<1750,1757>>,
    <<1759,1768>>, <<1770,1773>>, <<1807,1807>>, <<1809,1809>>, <<1840,1866>>,
    <<1958,1968>>, <<2027,2037>>, <<2042,2042>>, <<2045,2045>>, <<2070,2093>>,
    <<2137,2139>>, <<2184,2184>>, <<2192,2193>>, <<2200,2207>>, <<2249,2306>>,
    <<2362,2362>>, <<2364,2364>>, <<2369,2376>>, <<2381,2381>>, <<2385,2391>>,
    <<2402,2403>>, <<2417,2417>>, <<2433,2433>>, <<2492,2492>>, <<2497,2500>>,
    <<2509,2509>>, <<2530,2531>>, <<2558,2558>>, <<2561,2562>>, <<2620,2620>>,
    <<2625,2626>>, <<2631,2632>>, <<2635,2637>>, <<2641,2641>>, <<2672,2673>>,
    <<2677,2677>>, <<2689,2690>>, <<2748,2748>>, <<2753,2757>>, <<2759,2760>>,
    <<2765,2765>>, <<2786,2787>>, <<2810,2815>>, <<2817,2817>>, <<2876,2876>>,
    <<2879,2879>>, <<2881,2884>>, <<2893,2893>>, <<2901,2902>>, <<2914,2915>>,
    <<2946,2946>>, <<3008,3008>>, <<3021,3021>>, <<3072,3072>>, <<3076,3076>>,
    <<3132,3132>>, <<3134,3136>>, <<3142,3144>>, <<3146,3149>>, <<3157,3158>>,
    <<3170,3171>>, <<3201,3201>>, <<3260,3260>>, <<3263,3263>>, <<3270,3270>>,
    <<3276,3277>>, <<3298,3299>>, <<3328,3329>>, <<3387,3388>>, <<3393,3396>>,
    <<3405,3405>>, <<3426,3427>>, <<3457,3457>>, <<3530,3530>>, <<3538,3540>>,
    <<3542,3542>>, <<3633,3633>>, <<3636,3642>>, <<3654,3662>>, <<3761,3761>>,
    <<3764,3772>>, <<3782,3782>>, <<3784,3789>>, <<3864,3865>>, <<3893,3893>>,
    <<3895,3895>>, <<3897,3897>>, <<3953,3966>>, <<3968,3972>>, <<3974,3975>>,
    <<3981,3991>>, <<3993,4028>>, <<4038,4038>>, <<4141,4144>>, <<4146,4151>>,
    <<4153,4154>>, <<4157,4158>>, <<4184,4185>>, <<4190,4192>>, <<4209,4212>>,
    <<4226,4226>>, <<4229,4230>>, <<4237,4237>>, <<4253,4253>>, <<4348,4348>>,
    <<4957,4959>>, <<5906,5908>>, <<5938,5939>>, <<5970,5971>>, <<6002,6003>>,
    <<6068,6069>>, <<6071,6077>>, <<6086,6086>>, <<6089,6099>>, <<6103,6103>>,
    <<6109,6109>>, <<6155,6159>>, <<6211,6211>>, <<6277,6278>>, <<6313,6313>>,
    <<6432,6434>>, <<6439,6440>>, <<6450,6450>>, <<6457,6459>>, <<6679,6680>>,
    <<6683,6683>>, <<6742,6742>>, <<6744,6750>>, <<6752,6752>>, <<6754,6754>>,
    <<6757,6764>>, <<6771,6780>>, <<6783,6783>>, <<6823,6823>>, <<6832,6862>>,
    <<6912,6915>>, <<6964,6964>>, <<6966,6970>>, <<6972,6972>>, <<6978,6978>>,
    <<7019,7027>>, <<7040,7041>>, <<7074,7077>>, <<7080,7081>>, <<7083,7085>>,
    <<7142,7142>>, <<7144,7145>>, <<7149,7149>>, <<7151,7153>>, <<7212,7219>>,
    <<7222,7223>>, <<7288,7293>>, <<7376,7378>>, <<7380,7392>>, <<7394,7400>>,
    <<7405,7405>>, <<7412,7412>>, <<7416,7417>>, <<7468,7530>>, <<7544,7544>>,
    <<7579,7679>>, <<8125,8125>>, <<8127,8129>>, <<8141,8143>>, <<8157,8159>>,
    <<8173,8175>>, <<8189,8190>>, <<8203,8207>>, <<8216,8217>>, <<8228,8228>>,
    <<8231,8231>>, <<8234,8238>>, <<8288,8292>>, <<8294,8303>>, <<8305,8305>>,
    <<8319,8319>>, <<8336,8348>>, <<8400,8432>>, <<11388,11389>>,
    <<11503,11505>>, <<11631,11631>>, <<11647,11647>>, <<11744,11775>>,
    <<11823,11823>>, <<12293,12293>>, <<12330,12333>>, <<12337,12341>>,
    <<12347,12347>>, <<12441,12446>>, <<12540,12542>>, <<40981,40981>>,
    <<42232,42237>>, <<42508,42508>>, <<42607,42610>>, <<42612,42621>>,
    <<42623,42623>>, <<42652,42655>>, <<42736,42737>>, <<42752,42785>>,
    <<42864,42864>>, <<42888,42890>>, <<42994,42996>>, <<43000,43001>>,
    <<43010,43010>>, <<43014,43014>>, <<43019,43019>>, <<43045,43046>>,
    <<43052,43052>>, <<43204,43205>>, <<43232,43249>>, <<43263,43263>>,
    <<43302,43309>>, <<43335,43345>>, <<43392,43394>>, <<43443,43443>>,
    <<43446,43449>>, <<43452,43453>>, <<43471,43471>>, <<43493,43494>>,
    <<43561,43566>>, <<43569,43570>>, <<43573,43574>>, <<43587,43587>>,
    <<43596,43596>>, <<43632,43632>>, <<43644,43644>>, <<43696,43696>>,
    <<43698,43700>>, <<43703,43704>>, <<43710,43711>>, <<43713,43713>>,
    <<43741,43741>>, <<43756,43757>>, <<43763,43764>>, <<43766,43766>>,
    <<43867,43871>>, <<43881,43883>>, <<44005,44005>>, <<44008,44008>>,
    <<44013,44013>>, <<64286,64286>>, <<64434,64450>>, <<65024,65039>>,
    <<65043,65043>>, <<65056,65071>>, <<65106,65106>>, <<65109,65109>>,
    <<65279,65279>>, <<65287,65287>>, <<65294,65294>>, <<65306,65306>>,
    <<65342,65342>>, <<65344,65344>>, <<65392,65392>>, <<65438,65439>>,
    <<65507,65507>>, <<65529,65531>>, <<66045,66045>>, <<66272,66272>>,
    <<66422,66426>>, <<67456,67461>>, <<67463,67504>>, <<67506,67514>>,
    <<68097,68099>>, <<68101,68102>>, <<68108,68111>>, <<68152,68154>>,
    <<68159,68159>>, <<68325,68326>>, <<68900,68903>>, <<69291,69292>>,
    <<69446,69456>>, <<69506,69509>>, <<69633,69633>>, <<69688,69702>>,
    <<69744,69744>>, <<69747,69748>>, <<69759,69761>>, <<69811,69814>>,
    <<69817,69818>>, <<69821,69821>>, <<69826,69826>>, <<69837,69837>>,
    <<69888,69890>>, <<69927,69931>>, <<69933,69940>>, <<70003,70003>>,
    <<70016,70017>>, <<70070,70078>>, <<70089,70092>>, <<70095,70095>>,
    <<70191,70193>>, <<70196,70196>>, <<70198,70199>>, <<70206,70206>>,
    <<70367,70367>>, <<70371,70378>>, <<70400,70401>>, <<70459,70460>>,
    <<70464,70464>>, <<70502,70508>>, <<70512,70516>>, <<70712,70719>>,
    <<70722,70724>>, <<70726,70726>>, <<70750,70750>>, <<70835,70840>>,
    <<70842,70842>>, <<70847,70848>>, <<70850,70851>>, <<71090,71093>>,
    <<71100,71101>>, <<71103,71104>>, <<71132,71133>>, <<71219,71226>>,
    <<71229,71229>>, <<71231,71232>>, <<71339,71339>>, <<71341,71341>>,
    <<71344,71349>>, <<71351,71351>>, <<71453,71455>>, <<71458,71461>>,
    <<71463,71467>>, <<71727,71735>>, <<71737,71738>>, <<71995,71996>>,
    <<71998,71998>>, <<72003,72003>>, <<72148,72151>>, <<72154,72155>>,
    <<72160,72160>>, <<72193,72202>>, <<72243,72248>>, <<72251,72254>>,
    <<72263,72263>>, <<72273,72278>>, <<72281,72283>>, <<72330,72342>>,
    <<72344,72345>>, <<72752,72758>>, <<72760,72765>>, <<72767,72767>>,
    <<72850,72871>>, <<72874,72880>>, <<72882,72883>>, <<72885,72886>>,
    <<73009,73014>>, <<73018,73018>>, <<73020,73021>>, <<73023,73029>>,
    <<73031,73031>>, <<73104,73105>>, <<73109,73109>>, <<73111,73111>>,
    <<73459,73460>>, <<78896,78904>>, <<92912,92916>>, <<92976,92982>>,
    <<92992,92995>>, <<94031,94031>>, <<94095,94111>>, <<94176,94177>>,
    <<94179,94180>>, <<110576,110579>>, <<110581,110587>>, <<110589,110590>>,
    <<113821,113822>>, <<113824,113827>>, <<118528,118573>>,
    <<118576,118598>>, <<119143,119145>>, <<119155,119170>>,
    <<119173,119179>>, <<119210,119213>>, <<119362,119364>>,
    <<121344,121398>>, <<121403,121452>>, <<121461,121461>>,
    <<121476,121476>>, <<121499,121503>>, <<121505,121519>>,
    <<122880,122886>>, <<122888,122904>>, <<122907,122913>>,
    <<122915,122916>>, <<122918,122922>>, <<123184,123197>>,
    <<123566,123566>>, <<123628,123631>>, <<125136,125142>>,
    <<125252,125259>>, <<127995,127999>>, <<917505,917505>>,
    <<917536,917631>>, <<917760,917999>> >>

\* the cased characters that are not case-ignorable, as <<lo, hi>>
CasedRanges == <<
    <<65,90>>, <<97,122>>, <<170,170>>, <<181,181>>, <<186,186>>, <<192,214>>,
    <<216,246>>, <<248,442>>, <<444,447>>, <<452,659>>, <<661,687>>,
    <<880,883>>, <<886,887>>, <<891,893>>, <<895,895>>, <<902,902>>,
    <<904,906>>, <<908,908>>, <<910,929>>, <<931,1013>>, <<1015,1153>>,
    <<1162,1327>>, <<1329,1366>>, <<1376,1416>>, <<4256,4293>>, <<4295,4295>>,
    <<4301,4301>>, <<4304,4346>>, <<4349,4351>>, <<5024,5109>>, <<5112,5117>>,
    <<7296,7304>>, <<7312,7354>>, <<7357,7359>>, <<7424,7467>>, <<7531,7543>>,
    <<7545,7578>>, <<7680,7957>>, <<7960,7965>>, <<7968,8005>>, <<8008,8013>>,
    <<8016,8023>>, <<8025,8025>>, <<8027,8027>>, <<8029,8029>>, <<8031,8061>>,
    <<8064,8116>>, <<8118,8124>>, <<8126,8126>>, <<8130,8132>>, <<8134,8140>>,
    <<8144,8147>>, <<8150,8155>>, <<8160,8172>>, <<8178,8180>>, <<8182,8188>>,
    <<8450,8450>>, <<8455,8455>>, <<8458,8467>>, <<8469,8469>>, <<8473,8477>>,
    <<8484,8484>>, <<8486,8486>>, <<8488,8488>>, <<8490,8493>>, <<8495,8500>>,
    <<8505,8505>>, <<8508,8511>>, <<8517,8521>>, <<8526,8526>>, <<8544,8575>>,
    <<8579,8580>>, <<9398,9449>>, <<11264,11387>>, <<11390,11492>>,
    <<11499,11502>>, <<11506,11507>>, <<11520,11557>>, <<11559,11559>>,
    <<11565,11565>>, <<42560,42605>>, <<42624,42651>>, <<42786,42863>>,
    <<42865,42887>>, <<42891,42894>>, <<42896,42954>>, <<42960,42961>>,
    <<42963,42963>>, <<42965,42969>>, <<42997,42998>>, <<43002,43002>>,
    <<43824,43866>>, <<43872,43880>>, <<43888,43967>>, <<64256,64262>>,
    <<64275,64279>>, <<65313,65338>>, <<65345,65370>>, <<66560,66639>>,
    <<66736,66771>>, <<66776,66811>>, <<66928,66938>>, <<66940,66954>>,
    <<66956,66962>>, <<66964,66965>>, <<66967,66977>>, <<66979,66993>>,
    <<66995,67001>>, <<67003,67004>>, <<68736,68786>>, <<68800,68850>>,
    <<71840,71903>>, <<93760,93823>>, <<119808,119892>>, <<119894,119964>>,
    <<119966,119967>>, <<119970,119970>>, <<119973,119974>>,
    <<119977,119980>>, <<119982,119993>>, <<119995,119995>>,
    <<119997,120003>>, <<120005,120069>>, <<120071,120074>>,
    <<120077,120084>>, <<120086,120092>>, <<120094,120121>>,
    <<120123,120126>>, <<120128,120132>>, <<120134,120134>>,
    <<120138,120144>>, <<120146,120485>>, <<120488,120512>>,
    <<120514,120538>>, <<120540,120570>>, <<120572,120596>>,
    <<120598,120628>>, <<120630,120654>>, <<120656,120686>>,
    <<120688,120712>>, <<120714,120744>>, <<120746,120770>>,
    <<120772,120779>>, <<122624,122633>>, <<122635,122654>>,
    <<125184,125251>>, <<127280,127305>>, <<127312,127337>>, <<127344,127369>> >>

InRanges(ranges, c) ==
    \E k \in 1..Len(ranges) : ranges[k][1] <= c /\ c <= ranges[k][2]

Applies(r, c) == r[1] <= c /\ c <= r[2] /\ (c - r[1]) % r[3] = 0

\* the case mapping of one character: a sequence of one or more characters
CaseMapped(ranges, special, c) ==
    IF \E k \in 1..Len(special) : special[k][1] = c
    THEN special[CHOOSE k \in 1..Len(special) : special[k][1] = c][2]
    ELSE IF \E k \in 1..Len(ranges) : Applies(ranges[k], c)
    THEN <<c + ranges[CHOOSE k \in 1..Len(ranges) : Applies(ranges[k], c)][4]>>
    ELSE <<c>>

\* c.lower(), c.upper() for a str of one character
LowerChar(c) ==
    IF c < 128 THEN <<IF 65 <= c /\ c <= 90 THEN c + 32 ELSE c>>
    ELSE CaseMapped(LowerRanges, LowerSpecial, c)
UpperChar(c) ==
    IF c < 128 THEN <<IF 97 <= c /\ c <= 122 THEN c - 32 ELSE c>>
    ELSE CaseMapped(UpperRanges, UpperSpecial, c)

\* lower() of a capital sigma (931) depends on its place: it becomes a final
\* sigma (962) after a cased character and not before one, case-ignorable
\* characters skipped, and a small sigma (963) otherwise
FinalSigma(s, i) ==
    LET before == {j \in 1..(i - 1) : ~InRanges(CaseIgnorableRanges, s[j])}
        after == {j \in (i + 1)..Len(s) : ~InRanges(CaseIgnorableRanges, s[j])}
    IN  /\ before # {}
        /\ InRanges(CasedRanges, s[CHOOSE j \in before : \A k \in before : k <= j])
        /\ \/ after = {}
           \/ ~InRanges(CasedRanges, s[CHOOSE j \in after : \A k \in after : j <= k])

LowerAt(s, i) ==
    IF s[i] = 931 THEN <<IF FinalSigma(s, i) THEN 962 ELSE 963>>
    ELSE LowerChar(s[i])

\* s.lower(), s.upper(): the length may change
RECURSIVE LowerFrom(_, _)
LowerFrom(s, i) == IF i > Len(s) THEN <<>> ELSE LowerAt(s, i) \o LowerFrom(s, i + 1)
Lower(s) == LowerFrom(s, 1)
RECURSIVE UpperFrom(_, _)
UpperFrom(s, i) == IF i > Len(s) THEN <<>> ELSE UpperChar(s[i]) \o UpperFrom(s, i + 1)
Upper(s) == UpperFrom(s, 1)

\* s.strip()
RECURSIVE LStrip(_)
LStrip(s) == IF s # <<>> /\ Head(s) \in Whitespace THEN LStrip(Tail(s)) ELSE s
RECURSIVE RStrip(_)
RStrip(s) ==
    IF s # <<>> /\ s[Len(s)] \in Whitespace THEN RStrip(SubSeq(s, 1, Len(s) - 1)) ELSE s
Strip(s) == RStrip(LStrip(s))

\* s.find(sub) as a 0-based index, -1 when absent
RECURSIVE FindFrom(_, _, _)
FindFrom(s, sub, i) ==
    IF i + Len(sub) > Len(s) THEN -1
    ELSE IF SubSeq(s, i + 1, i + Len(sub)) = sub THEN i
    ELSE FindFrom(s, sub, i + 1)
Find(s, sub) == FindFrom(s, sub, 0)

\* s[start:]
SliceFrom(s, start) == SubSeq(s, start + 1, Len(s))

\* s.split(sep) for a one-character sep: always at least one part
RECURSIVE SplitAcc(_, _, _, _)
SplitAcc(s, sep, i, cur) ==
    IF i > Len(s) THEN <<cur>>
    ELSE IF s[i] = sep THEN <<cur>> \o SplitAcc(s, sep, i + 1, <<>>)
    ELSE SplitAcc(s, sep, i + 1, Append(cur, s[i]))
Split(s, sep) == SplitAcc(s, sep, 1, <<>>)

---------------------------------------------------------------------------
(* Utility functions *)

\* the separator of path segments
Slash == Ord("/")

PROVIDERS == Text(<<"/","P","R","O","V","I","D","E","R","S","/">>)

\* the index of the marker the code slices after
ProvidersIndex(path_upper) == Find(path_upper, PROVIDERS)

\* faulty variant: sliced from the upper-cased path
RemainingUpper(full_path, path_upper, start_idx) == SliceFrom(path_upper, start_idx)

\* the text the code splits: sliced from the original path
Remaining(full_path, path_upper, start_idx) == SliceFrom(full_path, start_idx)

extract_meter_category(full_path) ==
    IF ~Truthy(full_path) \/ full_path.t # "str" THEN EmptyStr
    ELSE
        LET path_upper == Upper(full_path.v)
            providers_idx == ProvidersIndex(path_upper)
        IN  IF providers_idx = -1 THEN EmptyStr
            ELSE
                LET start_idx == providers_idx + Len(PROVIDERS)
                    remaining == Remaining(full_path.v, path_upper, start_idx)
                    parts == Split(remaining, Slash)
                IN  IF Len(parts) >= 2 THEN Str(parts[1] \o <<Slash>> \o parts[2])
                    ELSE IF Len(parts) = 1 THEN Str(parts[1])
                    ELSE EmptyStr

\* faulty variant: strip() without lower()
normalize_no_lower(resource_id) ==
    IF ~Truthy(resource_id) THEN EmptyStr ELSE Str(Strip(resource_id.v))

normalize_resource_id(resource_id) ==
    IF ~Truthy(resource_id) THEN EmptyStr
    ELSE Str(Strip(Lower(resource_id.v)))

\* faulty variant: a false value found deeper is passed over
FoundTruthy(r) == Truthy(r)

\* if result is not None
Found(r) == r # None

RECURSIVE find_first_key(_, _)
RECURSIVE FindInDict(_, _)
RECURSIVE FindInList(_, _)

\* the loop over obj.items()
FindInDict(items, target_key) ==
    IF items = <<>> THEN None
    ELSE IF Head(items).k = target_key THEN Head(items).v
    ELSE LET r == find_first_key(Head(items).v, target_key)
         IN  IF Found(r) THEN r ELSE FindInDict(Tail(items), target_key)

\* the loop over a list
FindInList(items, target_key) ==
    IF items = <<>> THEN None
    ELSE LET r == find_first_key(Head(items), target_key)
         IN  IF Found(r) THEN r ELSE FindInList(Tail(items), target_key)

find_first_key(obj, target_key) ==
    IF obj.t = "dict" THEN FindInDict(obj.items, target_key)
    ELSE IF obj.t = "list" THEN FindInList(obj.items, target_key)
    ELSE None

---------------------------------------------------------------------------
(* Resource-service lookup builder *)

\* find_first_key(app, 'process_state') or ''
AppProcessState(app) == Or(find_first_key(app, "process_state"), EmptyStr)

\* service_process_state or app_process_state or ''
ServiceProcessState(service, app_process_state) ==
    Or(Or(find_first_key(service, "process_state"), app_process_state), EmptyStr)

\* app.get('app_services') or []
ServicesOf(app) == Or(Get(app, "app_services"), List(<<>>)).items

\* service.get('resources') or [], a keyed mapping coerced to its values
ResourcesOf(service) ==
    LET resources == Or(Get(service, "resources"), List(<<>>))
    IN  IF resources.t = "dict" THEN Values(resources) ELSE resources.items

\* faulty variant: path_end_resource_id preferred over resource_id
ResourceIdPathEndFirst(resource) ==
    Or(Or(Get(resource, "path_end_resource_id"), Get(resource, "resource_id")), EmptyStr)

\* resource.get('resource_id') or resource.get('path_end_resource_id') or ''
ResourceId(resource) ==
    Or(Or(Get(resource, "resource_id"), Get(resource, "path_end_resource_id")), EmptyStr)

\* the LookupEntry written for every resource of a service
LookupEntry(service, process_state) ==
    Dict(<< KV("app_service_name", GetDefault(service, "app_service_name", EmptyStr)),
            KV("app_service_ci_number", GetDefault(service, "app_service_ci_number", EmptyStr)),
            KV("Resource Type- Class", GetDefault(service, "app_service_sys_class_name", EmptyStr)),
            KV("Process State", process_state) >>)

\* faulty variant: an existing entry is kept
StoreEntryKeepFirst(lookup, normalized_id, entry) ==
    IF HasKey(lookup, normalized_id) THEN lookup ELSE SetItem(lookup, normalized_id, entry)

\* lookup[normalized_id] = {...}
StoreEntry(lookup, normalized_id, entry) == SetItem(lookup, normalized_id, entry)

\* for resource in resources
RECURSIVE LookupAddResources(_, _, _)
LookupAddResources(lookup, resources, entry) ==
    IF resources = <<>> THEN lookup
    ELSE LET resource_id == ResourceId(Head(resources))
             next == IF Truthy(resource_id)
                     THEN StoreEntry(lookup, normalize_resource_id(resource_id).v, entry)
                     ELSE lookup
         IN  LookupAddResources(next, Tail(resources), entry)

\* for service in services
RECURSIVE LookupAddServices(_, _, _)
LookupAddServices(lookup, services, app_process_state) ==
    IF services = <<>> THEN lookup
    ELSE LET service == Head(services)
             process_state == ServiceProcessState(service, app_process_state)
             next == LookupAddResources(lookup, ResourcesOf(service),
                                        LookupEntry(service, process_state))
         IN  LookupAddServices(next, Tail(services), app_process_state)

\* for app in apps_data
RECURSIVE LookupAddApps(_, _)
LookupAddApps(lookup, apps) ==
    IF apps = <<>> THEN lookup
    ELSE LookupAddApps(
             LookupAddServices(lookup, ServicesOf(Head(apps)), AppProcessState(Head(apps))),
             Tail(apps))

build_resource_service_lookup(apps) == LookupAddApps(Dict(<<>>), apps.items)

---------------------------------------------------------------------------
(* Row extractors *)

\* mapping.get(key) or ''
Field(record, key) == Or(Get(record, key), EmptyStr)

\* the probe of the lookup made for one mapping: the entry, or None
ProbeLookup(resource_id, lookup) ==
    IF Truthy(resource_id)
    THEN Get(lookup, normalize_resource_id(resource_id).v)
    ELSE None

\* svc_info.get(key, '') when the probe hit, the '' default otherwise
Enrichment(svc_info, key) ==
    IF Truthy(svc_info) THEN GetDefault(svc_info, key, EmptyStr) ELSE EmptyStr

\* the body of the loop over mappings_data: one resource record
ResourceRow(mapping, lookup) ==
    LET resource_id == Field(mapping, "path_end_resource_id")
        svc_info == ProbeLookup(resource_id, lookup)
    IN  Dict(<< KV("Resource Name", Field(mapping, "path_end_name")),
                KV("Resource Type", Field(mapping, "path_end_sys_class")),
                KV("CI Number", Field(mapping, "path_end_ci_number")),
                KV("Business Application", Field(mapping, "app_ci_number")),
                KV("Meter Category", extract_meter_category(resource_id)),
                KV("App Code", Field(mapping, "app_code")),
                KV("App Name", Field(mapping, "app_name")),
                KV("App Cost Center", Field(mapping, "app_cost_center")),
                KV("Segment", Field(mapping, "segment")),
                KV("Sub Segment", Field(mapping, "sub_segment")),
                KV("Resource ID", Field(mapping, "path_end_resource_id")),
                KV("app_service_name", Enrichment(svc_info, "app_service_name")),
                KV("app_service_ci_number", Enrichment(svc_info, "app_service_ci_number")),
                KV("Resource Type- Class", Enrichment(svc_info, "Resource Type- Class")),
                KV("Process State", Enrichment(svc_info, "Process State")) >>)

\* faulty variant: unmatched mappings are dropped
RECURSIVE ExtractMatchedOnly(_, _)
ExtractMatchedOnly(mappings, lookup) ==
    IF mappings = <<>> THEN <<>>
    ELSE IF Truthy(ProbeLookup(Field(Head(mappings), "path_end_resource_id"), lookup))
         THEN <<ResourceRow(Head(mappings), lookup)>> \o ExtractMatchedOnly(Tail(mappings), lookup)
         ELSE ExtractMatchedOnly(Tail(mappings), lookup)

\* for mapping in mappings_data: resources.append(resource)
ExtractRows(mappings, lookup) ==
    [i \in 1..Len(mappings) |-> ResourceRow(mappings[i], lookup)]

extract_resources_from_mappings(mappings, lookup) == ExtractRows(mappings.items, lookup)

\* the body of the loop over an application's services: one service record
ServiceRow(app, service) ==
    Dict(<< KV("Resource Name", Field(service, "app_service_name")),
            KV("Resource Type", Field(service, "app_service_sys_class_name")),
            KV("CI Number", Field(service, "app_service_ci_number")),
            KV("Application Code", Field(app, "mfc_app_code")),
            KV("Environment", Field(service, "mfc_env")),
            KV("Parent CI Number", Or(Field(app, "apm_app_id"), EmptyStr)),
            KV("Process State", ServiceProcessState(service, AppProcessState(app))) >>)

\* for app in apps_data: for service in services: all_services.append(svc)
RECURSIVE ServiceRows(_)
ServiceRows(apps) ==
    IF apps = <<>> THEN <<>>
    ELSE LET app == Head(apps)
             services == ServicesOf(app)
         IN  [i \in 1..Len(services) |-> ServiceRow(app, services[i])] \o ServiceRows(Tail(apps))

extract_services_from_apps(apps) == ServiceRows(apps.items)

---------------------------------------------------------------------------
(* New Relic account lookup *)

NA == Str(Text(<<"N", "A">>))
ERROR == Str(Text(<<"E", "R", "R", "O", "R">>))

\* what requests.post and the parsing of its body can come to: a failure
\* (transport, HTTP status, malformed body) or the entities of the result
Failed == [kind |-> "fail", entities |-> <<>>]
Entities(names) == [kind |-> "ok", entities |-> names]

\* faulty variant: a failed query leaves no classification
AccountOnFailureNone == None

\* except Exception: account_name = "ERROR"
AccountOnFailure == ERROR

\* the try block: the first entity's account name, "NA" without entities
AccountOf(response) ==
    IF response.kind = "fail" THEN AccountOnFailure
    ELSE IF response.entities # <<>> THEN response.entities[1]
    ELSE NA

\* faulty variant: the cache is keyed by the normalized name
CacheKeyNormalized(item_name) == Strip(Lower(item_name.v))

\* the key of account_cache: the item name as given
CacheKey(item_name) == item_name.v

\* faulty variant: the disabled sentinel is stored in the cache
DisabledLookupCached(cache, item_name) ==
    [ret |-> ERROR, cache |-> SetItem(cache, CacheKey(item_name), ERROR), posted |-> FALSE]

\* if not self.nr_api_key: return "ERROR"
DisabledLookup(cache, item_name) ==
    [ret |-> ERROR, cache |-> cache, posted |-> FALSE]

\* faulty variant: a failure is not remembered
CacheResultUnlessError(cache, item_name, account_name) ==
    IF account_name = ERROR THEN cache
    ELSE SetItem(cache, CacheKey(item_name), account_name)

\* self.account_cache[item_name] = account_name
CacheResult(cache, item_name, account_name) ==
    SetItem(cache, CacheKey(item_name), account_name)

\* NewRelicLookup.get_item_details: the value returned, the cache afterwards
\* and whether the query was posted; response is what the query comes to
get_item_details(cache, api_key, item_name, response) ==
    IF ~Truthy(item_name) THEN [ret |-> NA, cache |-> cache, posted |-> FALSE]
    ELSE IF HasKey(cache, CacheKey(item_name))
    THEN [ret |-> Get(cache, CacheKey(item_name)), cache |-> cache, posted |-> FALSE]
    ELSE IF ~Truthy(api_key) THEN DisabledLookup(cache, item_name)
    ELSE LET account_name == AccountOf(response)
         IN  [ret |-> account_name,
              cache |-> CacheResult(cache, item_name, account_name),
              posted |-> TRUE]

\* faulty variant: the row also gets an Infrastructure flag
SetAccountAndFlag(resource, account) ==
    SetItem(SetItem(resource, "New Relic Account", account),
            "Infrastructure", [t |-> "bool", v |-> FALSE])

\* resource['New Relic Account'] = account
SetAccount(resource, account) == SetItem(resource, "New Relic Account", account)

\* main: resources_cols, the 16 columns of the resources report
resources_cols ==
    << "Resource Name", "Resource Type", "CI Number", "Business Application",
       "Meter Category", "App Code", "App Name", "App Cost Center",
       "Segment", "Sub Segment", "Resource ID",
       "app_service_name", "app_service_ci_number",
       "Resource Type- Class", "Process State", "New Relic Account" >>

\* pd.DataFrame(data, columns=columns): one record per row holding the listed
\* columns in order (a missing one is empty)
DataFrame(data, columns) ==
    [i \in 1..Len(data) |->
        Dict([c \in 1..Len(columns) |-> KV(columns[c], Get(data[i], columns[c]))])]

\* what building and saving a frame of n rows may come to: saved whole, or an
\* exception raised with the first rows (none, some or all) on file
SaveOutcomes(n) ==
    {[raised |-> FALSE, rows |-> n]} \cup {[raised |-> TRUE, rows |-> k] : k \in 0..n}

\* generate_csv: the rows left on file and the return value, len(df) when
\* saved and 0 from the except branch
generate_csv(data, columns, outcome) ==
    LET df == DataFrame(data, columns)
    IN  IF outcome.raised
        THEN [file |-> SubSeq(df, 1, outcome.rows), ret |-> 0]
        ELSE [file |-> df, ret |-> Len(df)]

---------------------------------------------------------------------------
(* Inputs of a run: what the Apps and Mappings APIs may return *)

MaxSvcs == 2    \* services of an application
MaxMaps == 2    \* mapping records of a run of the join
MaxRows == 3    \* resource rows of a run of the account lookup

Digits == Text(<<"1", "2", "3", "4", "5">>)
Tagged(c, a, s) == Str(<<Ord(c), Digits[a], Digits[s]>>)

SeqsUpTo(S, n) == UNION {[1..k -> S] : k \in 0..n}

\* resource collections of a service: absent, a sequence, a keyed mapping.
\* The identifiers: "Vm", small alpha and small sigma (945, 963), "vm" after
\* a form feed (12), and capital alpha and capital sigma (913, 931)
ResourceCollections ==
    { None,
      List(<< Dict(<< KV("resource_id", Str(Text(<<"V", "m">>))) >>),
              Dict(<< KV("resource_id", Str(<<945, 963>>)) >>) >>),
      Dict(<< KV("r1", Dict(<< KV("resource_id", EmptyStr),
                               KV("path_end_resource_id", Str(<<12>> \o Text(<<"v", "m">>))) >>)) >>),
      List(<< Dict(<< KV("resource_id", Str(<<913, 931>>)),
                      KV("path_end_resource_id", Str(Text(<<"V", "M">>))) >>),
              Dict(<< KV("name", Str(Text(<<"n">>))) >>) >>) }

ServiceShapes == [ps : BOOLEAN, resources : ResourceCollections]

\* service s of application a
Service(a, s, shape) ==
    Dict(<< KV("app_service_name", Tagged("s", a, s)),
            KV("app_service_ci_number", Tagged("c", a, s)),
            KV("app_service_sys_class_name", Tagged("t", a, s)) >>
         \o (IF shape.ps THEN <<KV("process_state", Tagged("p", a, s))>> ELSE <<>>)
         \o (IF shape.resources = None THEN <<>> ELSE <<KV("resources", shape.resources)>>)
         \o << KV("mfc_env", None) >>)

\* where the application's own process state sits: nowhere, nested before the
\* services, or after them
AppStatePositions == {"none", "before", "after"}

AppShapes == [state : AppStatePositions, services : SeqsUpTo(ServiceShapes, MaxSvcs)]
OneServiceAppShapes == [state : AppStatePositions, services : [1..1 -> ServiceShapes]]

\* application a
App(a, shape) ==
    Dict(<< KV("mfc_app_code", Tagged("A", a, a)) >>
         \o (IF shape.state = "before"
             THEN <<KV("details", Dict(<<KV("process_state", Tagged("q", a, a))>>))>>
             ELSE <<>>)
         \o << KV("app_services",
                  List([s \in 1..Len(shape.services) |-> Service(a, s, shape.services[s])])) >>
         \o (IF shape.state = "after"
             THEN <<KV("process_state", Tagged("q", a, a))>>
             ELSE <<>>))

\* one application with up to MaxSvcs services, or two with one service each
AppsInputs ==
    {List(<<App(1, x)>>) : x \in AppShapes}
    \cup {List(<<App(1, x), App(2, y)>>) : x \in OneServiceAppShapes, y \in OneServiceAppShapes}

\* resource ids of a mapping record: absent, "vM" between a no-break space
\* (160) and a blank, and small alpha and small sigma (945, 963)
MappingIds == {None, Str(<<160>> \o Text(<<"v", "M", " ">>)), Str(<<945, 963>>)}
MappingNames == {None}

\* mapping record i
Mapping(i, rid, name) ==
    Dict(<< KV("path_end_ci_number", Tagged("k", i, i)),
            KV("app_code", Str(Text(<<"A">>))),
            KV("segment", None) >>
         \o (IF rid = None THEN <<>> ELSE <<KV("path_end_resource_id", rid)>>)
         \o (IF name = None THEN <<>> ELSE <<KV("path_end_name", name)>>))

MappingsInputs(ids, names, n) ==
    {List([i \in 1..Len(m) |-> Mapping(i, m[i].rid, m[i].name)]) :
        m \in SeqsUpTo([rid : ids, name : names], n)}

---------------------------------------------------------------------------
(* main, phases 2 and 3: build the lookup, extract the rows *)

Init ==
    /\ pc = "start"
    /\ apps_data \in AppsInputs
    /\ mappings_data \in MappingsInputs(MappingIds, MappingNames, MaxMaps)
    /\ resource_lookup = None
    /\ resources_data = <<>>
    /\ services_data = <<>>
    /\ nr_api_key = None
    /\ account_cache = Dict(<<>>)
    /\ idx = 0
    /\ http_posts = <<>>
    /\ calls = <<>>
    /\ csv_resources = <<>>
    /\ resources_count = None
    /\ arg = None
    /\ result = None

BuildLookup ==
    /\ pc = "start"
    /\ resource_lookup' = build_resource_service_lookup(apps_data)
    /\ pc' = "lookup"
    /\ UNCHANGED <<apps_data, mappings_data, resources_data, services_data,
                   nr_api_key, account_cache, idx, http_posts, calls,
                   csv_resources, resources_count, arg, result>>

ExtractResources ==
    /\ pc = "lookup"
    /\ resources_data' = extract_resources_from_mappings(mappings_data, resource_lookup)
    /\ pc' = "resources"
    /\ UNCHANGED <<apps_data, mappings_data, resource_lookup, services_data,
                   nr_api_key, account_cache, idx, http_posts, calls,
                   csv_resources, resources_count, arg, result>>

ExtractServices ==
    /\ pc = "resources"
    /\ services_data' = extract_services_from_apps(apps_data)
    /\ pc' = "extracted"
    /\ UNCHANGED <<apps_data, mappings_data, resource_lookup, resources_data,
                   nr_api_key, account_cache, idx, http_posts, calls,
                   csv_resources, resources_count, arg, result>>

Next == BuildLookup \/ ExtractResources \/ ExtractServices

Spec == Init /\ [][Next]_vars

---------------------------------------------------------------------------
(* main, phases 4 and 5: the account lookup over the resource rows, the report *)

\* display names of the mapping records: absent, and names of which two
\* differ in case only
LookupNames == {None, Str(Text(<<"v", "m">>)), Str(Text(<<"V", "M">>)), Str(Text(<<"d", "b">>))}

\* NR_API_KEY = os.getenv("NR_API_KEY"): unset, empty or set
ApiKeys == {None, EmptyStr, Str(Text(<<"k">>))}

Prod == Str(Text(<<"P", "r", "o", "d">>))
Dev == Str(Text(<<"D", "e", "v">>))
Responses == {Failed, Entities(<<>>), Entities(<<Prod, Dev>>)}

InitNR ==
    /\ pc = "extracted"
    /\ apps_data = List(<<>>)
    /\ mappings_data \in MappingsInputs({None}, LookupNames, MaxRows)
    /\ resource_lookup = Dict(<<>>)
    /\ resources_data = extract_resources_from_mappings(mappings_data, resource_lookup)
    /\ services_data = <<>>
    /\ nr_api_key \in ApiKeys
    /\ account_cache = None
    /\ idx = 0
    /\ http_posts = <<>>
    /\ calls = <<>>
    /\ csv_resources = <<>>
    /\ resources_count = None
    /\ arg = None
    /\ result = None

\* nr_lookup = NewRelicLookup()
NewRelicLookupInit ==
    /\ pc = "extracted"
    /\ account_cache' = Dict(<<>>)
    /\ pc' = "enriching"
    /\ UNCHANGED <<apps_data, mappings_data, resource_lookup, resources_data,
                   services_data, nr_api_key, idx, http_posts, calls,
                   csv_resources, resources_count, arg, result>>

\* one round of the loop of enrich_resources_with_nr_account
EnrichRow(response) ==
    /\ pc = "enriching"
    /\ idx < Len(resources_data)
    /\ LET resource == resources_data[idx + 1]
           item_name == GetDefault(resource, "Resource Name", EmptyStr)
       IN  IF Truthy(item_name)
           THEN LET r == get_item_details(account_cache, nr_api_key, item_name, response)
                IN  /\ resources_data' =
                          [resources_data EXCEPT ![idx + 1] = SetAccount(resource, r.ret)]
                    /\ account_cache' = r.cache
                    /\ calls' = Append(calls, [name |-> item_name.v, ret |-> r.ret])
                    /\ http_posts' =
                          IF r.posted
                          THEN Append(http_posts, [name |-> item_name.v, response |-> response])
                          ELSE http_posts
           ELSE /\ resources_data' =
                      [resources_data EXCEPT ![idx + 1] = SetAccount(resource, NA)]
                /\ UNCHANGED <<account_cache, calls, http_posts>>
    /\ idx' = idx + 1
    /\ UNCHANGED <<pc, apps_data, mappings_data, resource_lookup, services_data,
                   nr_api_key, csv_resources, resources_count, arg, result>>

\* return resources
EnrichReturn ==
    /\ pc = "enriching"
    /\ idx = Len(resources_data)
    /\ pc' = "enriched"
    /\ UNCHANGED <<apps_data, mappings_data, resource_lookup, resources_data,
                   services_data, nr_api_key, account_cache, idx, http_posts, calls,
                   csv_resources, resources_count, arg, result>>

\* resources_count = generate_csv(resources_data, resources_cols,
\* resources_file); main goes on to its summary either way
GenerateCsv(outcome) ==
    /\ pc = "enriched"
    /\ LET r == generate_csv(resources_data, resources_cols, outcome)
       IN  /\ csv_resources' = r.file
           /\ resources_count' = r.ret
    /\ pc' = "done"
    /\ UNCHANGED <<apps_data, mappings_data, resource_lookup, resources_data,
                   services_data, nr_api_key, account_cache, idx, http_posts, calls,
                   arg, result>>

NextNR ==
    \/ NewRelicLookupInit
    \/ \E response \in Responses : EnrichRow(response)
    \/ EnrichReturn
    \/ \E outcome \in SaveOutcomes(Len(resources_data)) : GenerateCsv(outcome)

SpecNR == InitNR /\ [][NextNR]_vars

---------------------------------------------------------------------------
(* Properties of the join *)

RECURSIVE Concat(_)
Concat(seqs) == IF seqs = <<>> THEN <<>> ELSE Head(seqs) \o Concat(Tail(seqs))

\* c and d are one letter in two cases, or the same character
CaseVariant(c, d) ==
    \/ c = d
    \/ LowerChar(c) = <<d>>
    \/ LowerChar(d) = <<c>>
    \/ UpperChar(c) = <<d>>
    \/ UpperChar(d) = <<c>>

\* a and b differ only in letter case or surrounding whitespace
SameId(a, b) ==
    LET x == Strip(a)
        y == Strip(b)
    IN  /\ Len(x) = Len(y)
        /\ \A i \in 1..Len(x) : CaseVariant(x[i], y[i])

\* every service of the apps data with its application, in iteration order
AllServices ==
    Concat([a \in 1..Len(apps_data.items) |->
              LET app == apps_data.items[a]
                  services == Get(app, "app_services").items
              IN  [s \in 1..Len(services) |-> [app |-> app, svc |-> services[s]]]])

\* the identifier of a service-scoped resource: resource_id, else
\* path_end_resource_id, else none (the empty string)
OwnedId(resource) ==
    LET a == Get(resource, "resource_id")
        b == Get(resource, "path_end_resource_id")
    IN  IF a.t = "str" /\ a.v # <<>> THEN a.v
        ELSE IF b.t = "str" /\ b.v # <<>> THEN b.v
        ELSE <<>>

HasId(owner) == owner.id # <<>>

\* the resources of a service record, a keyed mapping read as its values
OwnedResources(service) ==
    LET r == Get(service, "resources")
    IN  IF r.t = "list" THEN r.items
        ELSE IF r.t = "dict" THEN [i \in 1..Len(r.items) |-> r.items[i].v]
        ELSE <<>>

\* the four enrichment fields of a service of an application
ServiceFields(app, svc) ==
    << GetDefault(svc, "app_service_name", EmptyStr),
       GetDefault(svc, "app_service_ci_number", EmptyStr),
       GetDefault(svc, "app_service_sys_class_name", EmptyStr),
       ServiceProcessState(svc, AppProcessState(app)) >>

\* every (resource identifier, owning service, its enrichment fields) triple,
\* in iteration order
Owners ==
    LET all == AllServices
    IN  SelectSeq(
            Concat([k \in 1..Len(all) |->
                      LET resources == OwnedResources(all[k].svc)
                          fields == ServiceFields(all[k].app, all[k].svc)
                      IN  [r \in 1..Len(resources) |->
                             [id |-> OwnedId(resources[r]), at |-> k, fields |-> fields]]]),
            HasId)

\* the last owner among owners, in iteration order, of an identifier equal to
\* id up to case and surrounding whitespace; 0 when there is none
LastOwner(owners, id) ==
    LET hits == {j \in 1..Len(owners) : SameId(owners[j].id, id)}
    IN  IF hits = {} THEN 0 ELSE CHOOSE j \in hits : \A h \in hits : h <= j

\* the four enrichment fields of a lookup entry or of a resource row
EnrichmentFields(d) ==
    << Get(d, "app_service_name"), Get(d, "app_service_ci_number"),
       Get(d, "Resource Type- Class"), Get(d, "Process State") >>

NoEnrichment == <<EmptyStr, EmptyStr, EmptyStr, EmptyStr>>

LookupBuilt == pc \in {"lookup", "resources", "extracted"}
ResourcesExtracted == pc \in {"resources", "extracted"}

\* C4: the lookup is last-write-wins on the normalized id: for every
\* identifier owned by some service, the lookup holds exactly one entry whose
\* key equals it up to case and surrounding whitespace, and that entry carries
\* the name, CI number, type and process state of the last service, in
\* iteration order, that owns such an identifier; it holds no other entry.
C4_LastWriteWins ==
    LookupBuilt =>
        LET owners == Owners
            entries == resource_lookup.items
        IN  /\ \A i \in 1..Len(owners) :
                  LET same == {e \in 1..Len(entries) : SameId(entries[e].k, owners[i].id)}
                  IN  /\ Cardinality(same) = 1
                      /\ \A e \in same :
                            EnrichmentFields(entries[e].v)
                                = owners[LastOwner(owners, owners[i].id)].fields
            /\ \A e \in 1..Len(entries) : LastOwner(owners, entries[e].k) # 0

\* the resource id of the i-th mapping record, '' when absent
MappingId(i) ==
    LET v == Get(mappings_data.items[i], "path_end_resource_id")
    IN  IF v.t = "str" THEN v ELSE EmptyStr

\* C5: extract_resources_from_mappings returns one row per mapping record in
\* input order: as many rows as mappings, the i-th row carrying the i-th
\* mapping's path_end_resource_id (or '') and its CI number, hit or miss.
C5_OneRowPerMapping ==
    ResourcesExtracted =>
        /\ Len(resources_data) = Len(mappings_data.items)
        /\ \A i \in 1..Len(resources_data) :
              /\ Get(resources_data[i], "Resource ID") = MappingId(i)
              /\ Get(resources_data[i], "CI Number")
                    = Get(mappings_data.items[i], "path_end_ci_number")

\* two mappings, the first a miss and the second a hit, both extracted
C5_Witness ==
    /\ pc = "resources"
    /\ Len(mappings_data.items) = 2
    /\ Len(resources_data) = 2
    /\ MappingId(2).v # <<>>
    /\ LET owners == Owners
       IN  /\ LastOwner(owners, MappingId(1).v) = 0
           /\ LastOwner(owners, MappingId(2).v) # 0

\* C8: the join is case- and trim-insensitive end to end: the row of a mapping
\* whose (non-empty) path_end_resource_id equals, up to case and surrounding
\* whitespace, an identifier owned by a service carries the name, CI number,
\* type and process state of the last such service; the row of any other
\* mapping has the four enrichment fields empty.
C8_JoinInsensitive ==
    ResourcesExtracted =>
        LET owners == Owners
        IN  \A i \in 1..Len(mappings_data.items) :
                LET id == MappingId(i).v
                    j == LastOwner(owners, id)
                IN  EnrichmentFields(resources_data[i])
                        = IF id # <<>> /\ j # 0 THEN owners[j].fields ELSE NoEnrichment

\* the application record without its services
WithoutServices(app) ==
    Dict(SelectSeq(app.items, LAMBDA item : item.k # "app_services"))

\* the process state a service should get: its own value, else the value of
\* its owning application, else ''
HierarchicalState(app, svc) ==
    LET own == find_first_key(svc, "process_state")
        of_app == find_first_key(WithoutServices(app), "process_state")
    IN  IF Truthy(own) THEN own
        ELSE IF Truthy(of_app) THEN of_app
        ELSE EmptyStr

\* C6: process state is resolved hierarchically in extract_services_from_apps
\* and in build_resource_service_lookup: a service with its own process-state
\* value gets it, a service without one gets its owning application's value,
\* and when neither has one the Process State field is '' (present).
C6_Hierarchical ==
    LET all == AllServices
        owners == Owners
    IN  /\ LookupBuilt =>
              \A e \in 1..Len(resource_lookup.items) :
                  LET k == owners[LastOwner(owners, resource_lookup.items[e].k)].at
                  IN  /\ HasKey(resource_lookup.items[e].v, "Process State")
                      /\ Get(resource_lookup.items[e].v, "Process State")
                            = HierarchicalState(all[k].app, all[k].svc)
        /\ pc = "extracted" =>
              /\ Len(services_data) = Len(all)
              /\ \A k \in 1..Len(all) :
                    /\ HasKey(services_data[k], "Process State")
                    /\ Get(services_data[k], "Process State")
                          = HierarchicalState(all[k].app, all[k].svc)

---------------------------------------------------------------------------
(* Properties of the account lookup *)

HasCredential == Truthy(nr_api_key)

\* the queries posted for a name, the calls made for it
PostsOf(name) == {q \in 1..Len(http_posts) : http_posts[q].name = name}
CallsOf(name) == {k \in 1..Len(calls) : calls[k].name = name}

\* the classification a response stands for
Classification(response) ==
    IF response.kind = "fail" THEN ERROR
    ELSE IF Len(response.entities) = 0 THEN NA
    ELSE Head(response.entities)

\* C1: with a credential configured, every distinct non-empty name that
\* get_item_details was called with (compared as the raw string) has caused
\* exactly one outbound query, however often it was called, and every call for
\* it returned what that one query came to (account name, "NA" or "ERROR");
\* no query was posted for a name that was not called.
C1_OneQueryPerName ==
    HasCredential =>
        /\ \A k \in 1..Len(calls) :
              /\ calls[k].name # <<>>
              /\ Cardinality(PostsOf(calls[k].name)) = 1
              /\ \A q \in PostsOf(calls[k].name) :
                    calls[k].ret = Classification(http_posts[q].response)
        /\ \A q \in 1..Len(http_posts) : CallsOf(http_posts[q].name) # {}

\* a name was called twice after its query failed, and a name differing from
\* it in case only was queried on its own
C1_Witness ==
    /\ HasCredential
    /\ \E j, k \in 1..Len(calls) :
          /\ j < k
          /\ calls[j].name = calls[k].name
          /\ calls[k].ret = ERROR
    /\ \E q, r \in 1..Len(http_posts) :
          /\ http_posts[q].name # http_posts[r].name
          /\ Lower(http_posts[q].name) = Lower(http_posts[r].name)

\* C2 as stated: without a credential, a call with a non-empty uncached name
\* returns the disabled sentinel without a network call and the result is
\* stored in the account cache under the name.
C2_DisabledResultCached ==
    (~HasCredential) =>
        /\ http_posts = <<>>
        /\ \A k \in 1..Len(calls) :
              /\ calls[k].ret = ERROR
              /\ HasKey(account_cache, calls[k].name)

\* C2 as amended: without a credential, every call with a non-empty name
\* returns the disabled sentinel "ERROR" without a network call, and nothing is
\* stored: the account cache stays empty.
C2_DisabledResultNotCached ==
    (~HasCredential /\ pc # "extracted") =>
        /\ http_posts = <<>>
        /\ \A k \in 1..Len(calls) : calls[k].ret = ERROR
        /\ account_cache = Dict(<<>>)

\* without a credential, the same name was looked up twice
C2_Witness ==
    /\ ~HasCredential
    /\ \E j, k \in 1..Len(calls) : j < k /\ calls[j].name = calls[k].name
    /\ ~HasKey(account_cache, calls[1].name)

Enriched == pc \in {"enriched", "done"}

\* the keys of a dict, in order
Keys(d) == [i \in 1..Len(d.items) |-> d.items[i].k]

\* C3 as stated: after enrichment every resource row carries an
\* "Infrastructure" indicator, true exactly when its "New Relic Account" is one
\* of the two production-account labels.
C3_InfrastructureFlag ==
    Enriched =>
        \E labels \in SUBSET {Prod, Dev} :
            /\ Cardinality(labels) = 2
            /\ \A i \in 1..Len(resources_data) :
                  /\ HasKey(resources_data[i], "Infrastructure")
                  /\ Get(resources_data[i], "Infrastructure")
                        = [t |-> "bool",
                           v |-> Get(resources_data[i], "New Relic Account") \in labels]

\* C3 as amended: after enrichment every resource row carries a
\* "New Relic Account" classification and no "Infrastructure" indicator: its
\* fields are the 16 columns of the resources report, whose rows are written
\* with exactly these, all of them when generate_csv reports a row count.
C3_NoInfrastructureFlag ==
    /\ pc \in {"enriching", "enriched", "done"} =>
          \A i \in 1..idx :
              /\ ~HasKey(resources_data[i], "Infrastructure")
              /\ Keys(resources_data[i]) = resources_cols
    /\ pc = "done" =>
          /\ Len(csv_resources) <= Len(resources_data)
          /\ \A i \in 1..Len(csv_resources) : csv_resources[i] = resources_data[i]
          /\ resources_count \in {0, Len(resources_data)}
          /\ resources_count # 0 => Len(csv_resources) = Len(resources_data)

\* the report was written with a row classified under an account name
C3_Witness ==
    /\ pc = "done"
    /\ resources_count = Len(resources_data)
    /\ \E i \in 1..Len(csv_resources) :
          /\ Get(csv_resources[i], "New Relic Account") = Prod
          /\ ~HasKey(resources_data[i], "Infrastructure")

\* the name of the i-th resource row
RowName(i) == Get(resources_data[i], "Resource Name").v

\* C10: a failed account lookup never aborts enrichment: on return every
\* resource row has a "New Relic Account" value (an account name, "NA" or
\* "ERROR"), a row whose name's query failed has "ERROR", and the rows are the
\* extracted rows, in number and order, with that one field added.
C10_FailureDoesNotAbort ==
    Enriched =>
        /\ idx = Len(resources_data)
        /\ Len(resources_data) = Len(mappings_data.items)
        /\ \A i \in 1..Len(resources_data) :
              LET account == Get(resources_data[i], "New Relic Account")
              IN  /\ HasKey(resources_data[i], "New Relic Account")
                  /\ account \in {Prod, Dev, NA, ERROR}
                  /\ \A q \in PostsOf(RowName(i)) :
                        http_posts[q].response = Failed => account = ERROR
                  /\ SelectSeq(resources_data[i].items,
                               LAMBDA item : item.k # "New Relic Account")
                        = ResourceRow(mappings_data.items[i], resource_lookup).items

\* enrichment returned although the query of a row failed, and a later row
\* was still looked up and classified
C10_Witness ==
    /\ pc = "enriched"
    /\ \E i, j \in 1..Len(resources_data) :
          /\ i < j
          /\ \E q \in PostsOf(RowName(i)) : http_posts[q].response = Failed
          /\ Get(resources_data[i], "New Relic Account") = ERROR
          /\ \E q \in PostsOf(RowName(j)) : http_posts[q].response # Failed
          /\ Get(resources_data[j], "New Relic Account") = Prod

---------------------------------------------------------------------------
(* find_first_key on nested structures *)

MaxVals == 2    \* distinct non-empty strings at the leaves

Leaves == {None, EmptyStr} \cup {Tagged("v", i, i) : i \in 1..MaxVals}
SearchKeys == {"process_state", "a"}
SearchOther(k) == IF k = "a" THEN "process_state" ELSE "a"

\* the dicts of at most two entries and the lists of at most two elements over V
DictsOver(V) ==
    {Dict(<<>>)}
    \cup {Dict(<<KV(k, v)>>) : k \in SearchKeys, v \in V}
    \cup {Dict(<<KV(k, v), KV(SearchOther(k), w)>>) : k \in SearchKeys, v \in V, w \in V}
ListsOver(V) ==
    {List(<<>>)} \cup {List(<<v>>) : v \in V} \cup {List(<<v, w>>) : v \in V, w \in V}

Nested1 == Leaves \cup DictsOver(Leaves) \cup ListsOver(Leaves)
Nested2 == DictsOver(Nested1) \cup ListsOver(Nested1)

\* the variables of main, unused by the checks of the utility functions
NoRun ==
    /\ apps_data = List(<<>>)
    /\ mappings_data = List(<<>>)
    /\ resource_lookup = None
    /\ resources_data = <<>>
    /\ services_data = <<>>
    /\ nr_api_key = None
    /\ account_cache = None
    /\ idx = 0
    /\ http_posts = <<>>
    /\ calls = <<>>
    /\ csv_resources = <<>>
    /\ resources_count = None

InitFind ==
    /\ pc = "call"
    /\ arg \in Nested1 \cup Nested2
    /\ result = None
    /\ NoRun

\* result = find_first_key(arg, 'process_state')
CallFindFirstKey ==
    /\ pc = "call"
    /\ result' = find_first_key(arg, "process_state")
    /\ pc' = "return"
    /\ UNCHANGED <<apps_data, mappings_data, resource_lookup, resources_data,
                   services_data, nr_api_key, account_cache, idx, http_posts, calls,
                   csv_resources, resources_count, arg>>

NextFind == CallFindFirstKey

SpecFind == InitFind /\ [][NextFind]_vars

\* the values of the keys equal to target, in the order of the traversal that
\* for each key in order checks the key and, only if it differs, descends
\* into its value before moving on; lists are visited in element order
RECURSIVE Matches(_, _)
Matches(obj, target) ==
    IF obj.t = "dict"
    THEN Concat([i \in 1..Len(obj.items) |->
                    IF obj.items[i].k = target THEN <<obj.items[i].v>>
                    ELSE Matches(obj.items[i].v, target)])
    ELSE IF obj.t = "list"
    THEN Concat([i \in 1..Len(obj.items) |-> Matches(obj.items[i], target)])
    ELSE <<>>

---------------------------------------------------------------------------
(* extract_meter_category on resource paths *)

MaxTail == 3    \* characters after the marker

\* nothing, a segment, a marker followed by a segment, and a sharp s (223),
\* whose upper() is two characters
PathPrefixes ==
    { <<>>,
      Text(<<"/", "s">>),
      <<223>>,
      Text(<<"/", "P", "r", "o", "v", "i", "d", "e", "r", "s", "/", "p">>) }
PathMarkers ==
    { <<>>,
      Text(<<"/", "p", "r", "o", "v", "i", "d", "e", "r", "s", "/">>),
      Text(<<"/", "P", "R", "O", "V", "I", "D", "E", "R", "S", "/">>),
      Text(<<"/", "p", "r", "o", "V", "i", "d", "e", "r", "S", "/">>),
      Text(<<"/", "p", "r", "o", "v", "i", "d", "e", "r", "/">>) }
PathTails == SeqsUpTo({Ord("a"), Ord("B"), Slash}, MaxTail)

PathInputs ==
    {None} \cup {Str(p \o m \o t) : p \in PathPrefixes, m \in PathMarkers, t \in PathTails}

InitMeter ==
    /\ pc = "call"
    /\ arg \in PathInputs
    /\ result = None
    /\ NoRun

\* result = extract_meter_category(arg)
CallExtractMeterCategory ==
    /\ pc = "call"
    /\ result' = extract_meter_category(arg)
    /\ pc' = "return"
    /\ UNCHANGED <<apps_data, mappings_data, resource_lookup, resources_data,
                   services_data, nr_api_key, account_cache, idx, http_posts, calls,
                   csv_resources, resources_count, arg>>

NextMeter == CallExtractMeterCategory

SpecMeter == InitMeter /\ [][NextMeter]_vars

\* the 0-based positions at which path holds "/PROVIDERS/" in any letter case
MarkerPositions(path) ==
    {i \in 0..(Len(path) - Len(PROVIDERS)) :
        \A j \in 1..Len(PROVIDERS) : UpperChar(path[i + j]) = <<PROVIDERS[j]>>}

Min(S) == CHOOSE x \in S : \A y \in S : x <= y

\* the positions of "/" in s
Slashes(s) == {i \in 1..Len(s) : s[i] = Slash}

\* the first two "/"-separated segments of s joined by "/": all of s when it
\* has at most one "/", else s up to its second "/"
FirstTwoSegments(s) ==
    IF Cardinality(Slashes(s)) <= 1 THEN s
    ELSE LET first == Min(Slashes(s))
         IN  SubSeq(s, 1, Min(Slashes(s) \ {first}) - 1)

\* C9: extract_meter_category returns '' for an empty input or one without
\* "/PROVIDERS/" in any letter case; otherwise the first two "/"-separated
\* segments, joined by "/", of the text after the first marker in its original
\* casing (the single segment when there is one, '' when nothing remains);
\* it always returns a string.
C9_MeterCategory ==
    pc = "return" =>
        /\ result.t = "str"
        /\ result.v =
              IF arg.t # "str" \/ MarkerPositions(arg.v) = {} THEN <<>>
              ELSE FirstTwoSegments(
                       SubSeq(arg.v, Min(MarkerPositions(arg.v)) + Len(PROVIDERS) + 1,
                              Len(arg.v)))

---------------------------------------------------------------------------
(* The account lookup with get_item_details also called directly *)

MaxCalls == 2      \* direct calls of get_item_details in a run
MaxCallRows == 2   \* resource rows of such a run

\* display names of which two differ in case only, and no name
CallRowNames == {None, Str(Text(<<"v", "m">>)), Str(Text(<<"V", "M">>))}

\* the names a caller may pass: empty, and the display names
CallNames == {EmptyStr} \cup (CallRowNames \ {None})

InitCalls ==
    /\ pc = "extracted"
    /\ apps_data = List(<<>>)
    /\ mappings_data \in MappingsInputs({None}, CallRowNames, MaxCallRows)
    /\ resource_lookup = Dict(<<>>)
    /\ resources_data = extract_resources_from_mappings(mappings_data, resource_lookup)
    /\ services_data = <<>>
    /\ nr_api_key \in ApiKeys
    /\ account_cache = None
    /\ idx = 0
    /\ http_posts = <<>>
    /\ calls = <<>>
    /\ csv_resources = <<>>
    /\ resources_count = None
    /\ arg = None
    /\ result = None

\* account = nr_lookup.get_item_details(item_name), called before the loop
GetItemDetailsCall(item_name, response) ==
    /\ pc = "enriching"
    /\ idx = 0
    /\ Len(calls) < MaxCalls
    /\ LET r == get_item_details(account_cache, nr_api_key, item_name, response)
       IN  /\ account_cache' = r.cache
           /\ calls' = Append(calls, [name |-> item_name.v, ret |-> r.ret])
           /\ http_posts' =
                 IF r.posted
                 THEN Append(http_posts, [name |-> item_name.v, response |-> response])
                 ELSE http_posts
    /\ UNCHANGED <<pc, apps_data, mappings_data, resource_lookup, resources_data,
                   services_data, nr_api_key, idx, csv_resources, resources_count, arg, result>>

NextCalls ==
    \/ NewRelicLookupInit
    \/ \E response \in Responses : EnrichRow(response)
    \/ \E item_name \in CallNames, response \in Responses :
          GetItemDetailsCall(item_name, response)
    \/ EnrichReturn
    \/ \E outcome \in SaveOutcomes(Len(resources_data)) : GenerateCsv(outcome)

SpecCalls == InitCalls /\ [][NextCalls]_vars

\* every call for a non-empty name returned the same value, rows of the same
\* non-empty name carry the same account, no entry is kept for the empty name
C11_FunctionOfName ==
    /\ \A j, k \in 1..Len(calls) :
          (calls[j].name = calls[k].name /\ calls[j].name # <<>>)
              => calls[j].ret = calls[k].ret
    /\ \A i, j \in 1..idx :
          (RowName(i) = RowName(j) /\ RowName(i) # <<>>)
              => /\ Get(resources_data[i], "New Relic Account")
                       = Get(resources_data[j], "New Relic Account")
                 /\ \A k \in CallsOf(RowName(i)) :
                       calls[k].ret = Get(resources_data[i], "New Relic Account")
    /\ account_cache.t = "dict" => ~HasKey(account_cache, <<>>)

\* every entry of the cache is kept, under its key and with its value
C11_CacheGrows ==
    account_cache.t = "dict" =>
        /\ account_cache'.t = "dict"
        /\ \A e \in 1..Len(account_cache.items) :
              /\ HasKey(account_cache', account_cache.items[e].k)
              /\ Get(account_cache', account_cache.items[e].k) = account_cache.items[e].v

\* C11: within one run the account classification is a function of the
\* resource name: all calls of get_item_details for a non-empty name return
\* the same value, the cache only grows (no entry is overwritten or removed),
\* two enriched rows with the same non-empty Resource Name carry the same
\* "New Relic Account", and the cache holds no entry for the empty name.
C11_ClassificationByName == [](C11_FunctionOfName) /\ [][C11_CacheGrows]_vars

\* with a credential: after direct calls with the empty name and with a name
\* whose query failed, two rows of that name were enriched without a further
\* query
C11_Witness ==
    /\ HasCredential
    /\ pc = "enriched"
    /\ Len(account_cache.items) = 1
    /\ \E k \in 1..Len(calls) : calls[k].name = <<>>
    /\ \E i, j \in 1..Len(resources_data) :
          /\ i < j
          /\ RowName(i) = RowName(j)
          /\ RowName(i) # <<>>
          /\ Get(resources_data[j], "New Relic Account") = ERROR
          /\ Cardinality(CallsOf(RowName(i))) >= 3
          /\ Cardinality(PostsOf(RowName(i))) = 1

====
